---------------------------- MODULE Spec2Model ----------------------------
(***************************************************************************)
(* Job matching engine of PROJECT/main.py: the match score                 *)
(* (calculate_job_match_score), the recommendation list                    *)
(* (get_job_recommendations), the match notifier                           *)
(* (notify_matching_candidates, create_notification) and the request       *)
(* handlers that change the rows they read (create_job, candidate_profile, *)
(* apply_job).                                                             *)
(***************************************************************************)
EXTENDS Integers, Sequences, FiniteSets, TLC

(***************************************************************************)
(* Binary floating point.  Python's float is an IEEE 754 binary64: every   *)
(* operation returns the exact result rounded to 53 significant bits,      *)
(* ties to even.  A positive float is [m |-> its 53 bits, most significant *)
(* first (m[1] = 1), e |-> the exponent of m[1]]; 0.0 has m = <<>>.        *)
(***************************************************************************)
MantBits == 53

FlZero == [m |-> <<>>, e |-> 0]

\* The number of bits of the integer n >= 0 (n < 2^30).
BitLen(n) == CHOOSE w \in 0..30 : n < 2^w /\ (w = 0 \/ n >= 2^(w - 1))

\* The low w bits of the integer n, most significant first.
FixedBits(n, w) == [i \in 1..w |-> (n \div 2^(w - i)) % 2]

\* The bits of the positive integer n, most significant first.
IntBits(n) == FixedBits(n, BitLen(n))

\* The integer whose bits are b, most significant first (Len(b) <= 30).
BitsInt(b) ==
    LET val[n \in Nat] == IF n = 0 THEN 0 ELSE 2 * val[n - 1] + b[n]
    IN  val[Len(b)]

\* b + 1 on a bit string of fixed length; carry is set when it wraps.
IncBits(b) ==
    LET zeros == {i \in 1..Len(b) : b[i] = 0}
    IN  IF zeros = {}
        THEN [m |-> [i \in 1..Len(b) |-> IF i = 1 THEN 1 ELSE 0], carry |-> 1]
        ELSE LET p == CHOOSE i \in zeros : \A j \in zeros : j <= i
             IN  [m |-> [i \in 1..Len(b) |->
                            IF i < p THEN b[i] ELSE IF i = p THEN 1 ELSE 0],
                  carry |-> 0]

\* Round the exact value with bits b (b[1] = 1, exponent e of b[1]) and a
\* non-zero tail below b iff sticky, to MantBits bits, ties to even.
RoundNearestEven(b, e, sticky) ==
    LET n     == Len(b)
        full  == [i \in 1..MantBits |-> IF i <= n THEN b[i] ELSE 0]
        guard == IF n > MantBits THEN b[MantBits + 1] ELSE 0
        rest  == sticky \/ \E i \in (MantBits + 2)..n : b[i] = 1
        up    == guard = 1 /\ (rest \/ full[MantBits] = 1)
        inc   == IncBits(full)
    IN  IF up THEN [m |-> inc.m, e |-> e + inc.carry]
        ELSE [m |-> full, e |-> e]

\* (r * 2^n) mod b for 0 <= r < b < 2^15 and n <= 60.
ShiftMod(r, n, b) ==
    LET h == n \div 2
    IN  (r * (((2^h % b) * (2^(n - h) % b)) % b)) % b

\* The next n bits of r / b (0 <= r < b): bit i is the integer part of
\* twice the remainder left by the i - 1 bits before it.
LongDiv(r, b, n) == [i \in 1..n |-> (2 * ShiftMod(r, i - 1, b)) \div b]

\* The remainder left after those n bits.
LongRem(r, b, n) == ShiftMod(r, n, b)

\* The least k with a * 2^k >= b.
ShiftUp(a, b) == CHOOSE k \in 0..30 : a * 2^k >= b /\ (k = 0 \/ a * 2^(k - 1) < b)

\* a / b for integers 0 <= a <= b, 0 < b < 2^15 (Python's true division).
FlDiv(a, b) ==
    IF a = 0 THEN FlZero
    ELSE LET k  == ShiftUp(a, b)
             a1 == a * 2^k
         IN  RoundNearestEven(<<1>> \o LongDiv(a1 - b, b, MantBits),
                              0 - k,
                              LongRem(a1 - b, b, MantBits) # 0)

\* The product of the MantBits-bit integer m and k (0 < k < 2^12), as bits:
\* schoolbook multiplication on three limbs of 18, 18 and 17 bits.
MulBits(m, k) ==
    LET hi  == BitsInt(SubSeq(m, 1, 18))
        mid == BitsInt(SubSeq(m, 19, 36))
        lo  == BitsInt(SubSeq(m, 37, 53))
        p0  == lo * k
        p1  == mid * k + p0 \div 2^17
        p2  == hi * k + p1 \div 2^18
    IN  IntBits(p2) \o FixedBits(p1 % 2^18, 18) \o FixedBits(p0 % 2^17, 17)

\* x * k for a float x and an integer 0 <= k < 2^12 (k is converted exactly).
FlMulInt(x, k) ==
    IF x.m = <<>> \/ k = 0 THEN FlZero
    ELSE LET p == MulBits(x.m, k)
         IN  RoundNearestEven(p, x.e + Len(p) - MantBits, FALSE)

\* int(x) for x >= 0: truncation.
FlTrunc(x) ==
    IF x.m = <<>> \/ x.e < 0 THEN 0
    ELSE BitsInt(SubSeq(x.m, 1, x.e + 1))

FlIsInteger(x) ==
    \/ x.m = <<>>
    \/ x.e >= 0 /\ \A i \in (x.e + 2)..Len(x.m) : x.m[i] = 0

\* n >= x for an integer n and a float x >= 0; Python compares exactly.
IntGeFl(n, x) == n >= FlTrunc(x) + (IF FlIsInteger(x) THEN 0 ELSE 1)

(***************************************************************************)
(* Values.  A nullable column holds None or Some(v).  A string is a        *)
(* sequence of one-character strings; money (Numeric(10, 2), a Decimal) is  *)
(* an integer number of cents, on which Decimal arithmetic is exact.       *)
(***************************************************************************)
None == <<>>
Some(v) == <<v>>

UpperCase == <<"A", "B", "C", "D", "E", "F", "G", "H", "I", "J", "K", "L", "M",
               "N", "O", "P", "Q", "R", "S", "T", "U", "V", "W", "X", "Y", "Z">>
LowerCase == <<"a", "b", "c", "d", "e", "f", "g", "h", "i", "j", "k", "l", "m",
               "n", "o", "p", "q", "r", "s", "t", "u", "v", "w", "x", "y", "z">>

\* str.lower()
Lower(str) ==
    [i \in 1..Len(str) |->
        IF \E k \in 1..Len(UpperCase) : UpperCase[k] = str[i]
        THEN LowerCase[CHOOSE k \in 1..Len(UpperCase) : UpperCase[k] = str[i]]
        ELSE str[i]]

\* a in b, for strings
IsSubstring(a, b) ==
    \E i \in 0..(Len(b) - Len(a)) : SubSeq(b, i + 1, i + Len(a)) = a

\* Truth value of a nullable string: None and '' are false.
TruthyStr(opt) == opt # None /\ opt[1] # <<>>

\* Truth value of a nullable Decimal: None and Decimal('0') are false.
TruthyDec(opt) == opt # None /\ opt[1] # 0

(***************************************************************************)
(* Bounds of the model.                                                    *)
(***************************************************************************)
MaxExp == 10            \* largest experience_years / experience_required
MaxRequiredSkills == 17  \* most job_required_skills rows of one posting

Importances == {"Required", "Preferred", "Nice to have"}

(***************************************************************************)
(* calculate_job_match_score                                               *)
(***************************************************************************)
Float07 == FlDiv(7, 10)     \* the literal 0.7
Float05 == FlDiv(1, 2)      \* the literal 0.5

\* job.experience_required * 0.7 and * 0.5, tabulated once.
ExperienceTimes ==
    [req \in 0..MaxExp |->
        [t07 |-> FlMulInt(Float07, req), t05 |-> FlMulInt(Float05, req)]]

\* Faulty variant: the 0.7 tier is entered only above the threshold.
ExperiencePoints_Strict(candidate, job) ==
    LET have == candidate.experience_years
        req  == job.experience_required
    IN  IF have >= req THEN 30
        ELSE IF ~ IntGeFl(have, ExperienceTimes[req].t07) THEN
            (IF IntGeFl(have, ExperienceTimes[req].t05) THEN 10 ELSE 0)
        ELSE IF FlIsInteger(ExperienceTimes[req].t07)
                /\ have = FlTrunc(ExperienceTimes[req].t07) THEN 10
        ELSE 20

\* Faulty variant: the points of the two lower tiers are exchanged.
ExperiencePoints_Swapped(candidate, job) ==
    LET have == candidate.experience_years
        req  == job.experience_required
    IN  IF have >= req THEN 30
        ELSE IF IntGeFl(have, ExperienceTimes[req].t07) THEN 10
        ELSE IF IntGeFl(have, ExperienceTimes[req].t05) THEN 20
        ELSE 0

ExperiencePoints(candidate, job) ==
    LET have == candidate.experience_years
        req  == job.experience_required
    IN  IF have >= req THEN 30
        ELSE IF IntGeFl(have, ExperienceTimes[req].t07) THEN 20
        ELSE IF IntGeFl(have, ExperienceTimes[req].t05) THEN 10
        ELSE 0

\* Faulty variant: the weights of Required and Nice to have are exchanged.
Weight_Swapped(importance) ==
    IF importance = "Required" THEN 1
    ELSE IF importance = "Preferred" THEN 2
    ELSE 3

Weight(importance) ==
    IF importance = "Required" THEN 3
    ELSE IF importance = "Preferred" THEN 2
    ELSE 1

\* int((matched_skills / total_weight) * 50), tabulated once.
RatioTimes50 ==
    [total \in 1..(3 * MaxRequiredSkills) |->
        [matched \in 0..total |->
            FlTrunc(FlMulInt(FlDiv(matched, total), 50))]]

\* total_weight over the rows i..Len(required_skills)
TotalWeight(required_skills) ==
    LET sum[i \in Nat] ==
            IF i > Len(required_skills) THEN 0
            ELSE Weight(required_skills[i].importance) + sum[i + 1]
    IN  sum[1]

\* matched_skills: the weight of the rows whose skill the candidate holds
MatchedWeight(required_skills, candidate_skill_ids) ==
    LET sum[i \in Nat] ==
            IF i > Len(required_skills) THEN 0
            ELSE (IF required_skills[i].skill_id \in candidate_skill_ids
                  THEN Weight(required_skills[i].importance) ELSE 0)
                 + sum[i + 1]
    IN  sum[1]

\* Faulty variant: a posting without required skills earns nothing.
SkillPoints_NoFlat(required_skills, candidate_skills) ==
    LET candidate_skill_ids ==
            {candidate_skills[i].skill_id : i \in 1..Len(candidate_skills)}
        total_weight   == TotalWeight(required_skills)
        matched_skills == MatchedWeight(required_skills, candidate_skill_ids)
    IN  IF required_skills # <<>> /\ total_weight > 0
        THEN RatioTimes50[total_weight][matched_skills]
        ELSE 0

SkillPoints(required_skills, candidate_skills) ==
    LET candidate_skill_ids ==
            {candidate_skills[i].skill_id : i \in 1..Len(candidate_skills)}
        total_weight   == TotalWeight(required_skills)
        matched_skills == MatchedWeight(required_skills, candidate_skill_ids)
    IN  IF required_skills # <<>>
        THEN IF total_weight > 0
             THEN RatioTimes50[total_weight][matched_skills]
             ELSE 0
        ELSE 25

\* Faulty variant: a matching location is worth 15 points.
LocationPoints_Fifteen(candidate, job) ==
    IF TruthyStr(candidate.location) /\ TruthyStr(job.location)
    THEN LET c == Lower(candidate.location[1])
             j == Lower(job.location[1])
         IN  IF IsSubstring(c, j) \/ IsSubstring(j, c) THEN 15 ELSE 5
    ELSE 0

\* Faulty variant: only the posting's location is looked for in the
\* candidate's.
LocationPoints_OneWay(candidate, job) ==
    IF TruthyStr(candidate.location) /\ TruthyStr(job.location)
    THEN LET c == Lower(candidate.location[1])
             j == Lower(job.location[1])
         IN  IF IsSubstring(j, c) THEN 10 ELSE 5
    ELSE 0

\* Faulty variant: the locations are compared as written, without lower().
LocationPoints_CaseSensitive(candidate, job) ==
    IF TruthyStr(candidate.location) /\ TruthyStr(job.location)
    THEN LET c == candidate.location[1]
             j == job.location[1]
         IN  IF IsSubstring(c, j) \/ IsSubstring(j, c) THEN 10 ELSE 5
    ELSE 0

LocationPoints(candidate, job) ==
    IF TruthyStr(candidate.location) /\ TruthyStr(job.location)
    THEN LET c == Lower(candidate.location[1])
             j == Lower(job.location[1])
         IN  IF IsSubstring(c, j) \/ IsSubstring(j, c) THEN 10 ELSE 5
    ELSE 0

\* Faulty variant: an expectation beyond the tolerance costs 5 points.
SalaryPoints_Penalty(candidate, job) ==
    IF /\ TruthyDec(candidate.salary_expectation)
       /\ TruthyDec(job.salary_min)
       /\ TruthyDec(job.salary_max)
    THEN LET expectation == candidate.salary_expectation[1]
             salary_min  == job.salary_min[1]
             salary_max  == job.salary_max[1]
         IN  IF salary_min <= expectation /\ expectation <= salary_max THEN 10
             ELSE IF 10 * expectation <= 12 * salary_max THEN 5
             ELSE 0 - 5
    ELSE 0

\* multiplier = Decimal('1.2'): x <= salary_max * 1.2 iff 10 x <= 12 salary_max
SalaryPoints(candidate, job) ==
    IF /\ TruthyDec(candidate.salary_expectation)
       /\ TruthyDec(job.salary_min)
       /\ TruthyDec(job.salary_max)
    THEN LET expectation == candidate.salary_expectation[1]
             salary_min  == job.salary_min[1]
             salary_max  == job.salary_max[1]
         IN  IF salary_min <= expectation /\ expectation <= salary_max THEN 10
             ELSE IF 10 * expectation <= 12 * salary_max THEN 5
             ELSE 0
    ELSE 0

MaxScore == 100

\* The body of calculate_job_match_score once both rows are found.
MatchScore(candidate, job, required_skills, candidate_skills) ==
    LET score == ExperiencePoints(candidate, job)
                 + SkillPoints(required_skills, candidate_skills)
                 + LocationPoints(candidate, job)
                 + SalaryPoints(candidate, job)
    IN  IF score < MaxScore THEN score ELSE MaxScore

(***************************************************************************)
(* The database and the last HTTP response.                                *)
(*   users[u]               .is_active                                     *)
(*   candidate_profiles[c]  .user_id .experience_years .location           *)
(*                          .salary_expectation          (id = index)      *)
(*   candidate_skills[c]    rows .skill_id .proficiency_level              *)
(*                          .years_experience of candidate c, in row order *)
(*   job_postings[j]        .experience_required .location .salary_min     *)
(*                          .salary_max .is_active        (id = index)     *)
(*   job_required_skills[j] rows .skill_id .importance                     *)
(*                          .min_years_experience of posting j             *)
(*   job_applications       rows .job_id .candidate_id, in insertion order *)
(*   notifications          rows .user_id .notification_type .job_id       *)
(*                          .match_score (the job and the score that the   *)
(*                          action_url and the message are built from)     *)
(*   error_log              the logger.error records                       *)
(*   response               what the last request handler returned         *)
(*   remembered             a job page seen earlier, kept for comparison   *)
(*   requests[r]            the request or call r in progress: its         *)
(*                          handler, its position and its local variables  *)
(* Every posting has its company row (company_id is a foreign key), so the *)
(* joins with Company drop nothing; activity_logs and                      *)
(* application_status_history are written but never read here and are     *)
(* left out.                                                               *)
(***************************************************************************)
VARIABLES users, candidate_profiles, candidate_skills, job_postings,
          job_required_skills, job_applications, notifications, error_log,
          response, remembered, requests

store == <<users, candidate_profiles, candidate_skills, job_postings,
           job_required_skills, job_applications, notifications, error_log>>

vars == <<users, candidate_profiles, candidate_skills, job_postings,
          job_required_skills, job_applications, notifications, error_log,
          response, remembered, requests>>

\* The requests served at the same time, none of them started.
MaxRequests == 2
NoRequests == [r \in 1..MaxRequests |-> [handler |-> "none"]]

CandidateIds == DOMAIN candidate_profiles
JobIds == DOMAIN job_postings

\* Faulty variant: the candidate_skills query is not filtered by candidate.
calculate_job_match_score_AllSkills(candidate_id, job_id) ==
    IF candidate_id \notin CandidateIds \/ job_id \notin JobIds THEN 0
    ELSE LET all[c \in Nat] ==
                 IF c = 0 THEN <<>> ELSE all[c - 1] \o candidate_skills[c]
         IN  MatchScore(candidate_profiles[candidate_id],
                        job_postings[job_id], job_required_skills[job_id],
                        all[Len(candidate_skills)])

calculate_job_match_score(candidate_id, job_id) ==
    IF candidate_id \notin CandidateIds \/ job_id \notin JobIds THEN 0
    ELSE MatchScore(candidate_profiles[candidate_id], job_postings[job_id],
                    job_required_skills[job_id],
                    candidate_skills[candidate_id])

(***************************************************************************)
(* Rows the requests are made of.                                          *)
(***************************************************************************)
Str(chars) == Some(chars)

Profile(user_id, years, location, salary) ==
    [user_id |-> user_id, experience_years |-> years, location |-> location,
     salary_expectation |-> salary]

Posting(required, location, salary_min, salary_max, active) ==
    [experience_required |-> required, location |-> location,
     salary_min |-> salary_min, salary_max |-> salary_max,
     is_active |-> active]

Req(skill_id, importance) ==
    [skill_id |-> skill_id, importance |-> importance,
     min_years_experience |-> 0]

Has(skill_id) ==
    [skill_id |-> skill_id, proficiency_level |-> "Intermediate",
     years_experience |-> 0]

\* One profile and one posting, every combination of the values below.
ExperienceInputs == 0..MaxExp
CandidateLocationInputs == {None, Str(<<>>), Str(<<"B", "e">>), Str(<<"r", "b">>)}
JobLocationInputs == {None, Str(<<"b", "E", "r">>), Str(<<"b">>)}
SalaryExpectationInputs == {None, Some(0), Some(3), Some(5), Some(6), Some(7)}
SalaryRangeInputs ==
    {<<None, None>>, <<Some(4), None>>, <<Some(0), Some(5)>>,
     <<Some(4), Some(5)>>}
RequiredSkillInputs ==
    {<<>>,
     <<Req(1, "Required")>>,
     <<Req(1, "Required"), Req(2, "Nice to have")>>,
     <<Req(1, "Required"), Req(2, "Required"), Req(3, "Preferred"),
       Req(4, "Nice to have")>>}
CandidateSkillInputs == {<<>>, <<Has(2)>>, <<Has(3), Has(1), Has(2)>>}

InitScore ==
    /\ users = <<[is_active |-> TRUE]>>
    /\ \E have \in ExperienceInputs, location \in CandidateLocationInputs,
          salary \in SalaryExpectationInputs :
            candidate_profiles = <<Profile(1, have, location, salary)>>
    /\ \E skills \in CandidateSkillInputs : candidate_skills = <<skills>>
    /\ \E required \in ExperienceInputs, location \in JobLocationInputs,
          range \in SalaryRangeInputs :
            job_postings =
                <<Posting(required, location, range[1], range[2], TRUE)>>
    /\ \E skills \in RequiredSkillInputs : job_required_skills = <<skills>>
    /\ job_applications = <<>>
    /\ notifications = {}
    /\ error_log = {}
    /\ response = [route |-> "none"]
    /\ remembered = None
    /\ requests = NoRequests

(***************************************************************************)
(* GET /job/<job_id> by the user of candidate_id (an id without a profile  *)
(* row stands for a user that has none): the posting's page with the       *)
(* viewer's match score.                                                   *)
(***************************************************************************)
job_details(candidate_id, job_id) ==
    /\ response' =
        IF job_id \notin JobIds
        THEN [route |-> "job_details", status |-> "not found"]
        ELSE IF candidate_id \notin CandidateIds
        THEN [route |-> "job_details", status |-> "ok",
              candidate_id |-> candidate_id, job_id |-> job_id,
              read |-> None, match_score |-> 0]
        ELSE [route |-> "job_details", status |-> "ok",
              candidate_id |-> candidate_id, job_id |-> job_id,
              read |-> Some([candidate |-> candidate_profiles[candidate_id],
                             job |-> job_postings[job_id],
                             required_skills |-> job_required_skills[job_id],
                             candidate_skills |->
                                 candidate_skills[candidate_id]]),
              match_score |->
                  calculate_job_match_score(candidate_id, job_id)]
    /\ UNCHANGED <<store, remembered, requests>>

\* The viewer keeps the page just shown, to compare later pages with it.
remember_score ==
    /\ response.route = "job_details"
    /\ response.status = "ok"
    /\ response.read # None
    /\ remembered' = Some(response)
    /\ UNCHANGED <<store, response, requests>>

(***************************************************************************)
(* get_job_recommendations                                                 *)
(***************************************************************************)
RecommendThreshold == 30
TopN == 10

\* The queries have no ORDER BY: the rows come back in an order the
\* database picks, here by ascending or by descending id.
FetchOrders == {"asc", "desc"}

Fetch(n, order) == [i \in 1..n |-> IF order = "asc" THEN i ELSE n + 1 - i]

applied_job_ids(candidate_id) ==
    {job_applications[i].job_id :
        i \in {k \in 1..Len(job_applications) :
                  job_applications[k].candidate_id = candidate_id}}

\* Faulty variant: the postings already applied to are not excluded.
available_jobs_WithApplied(candidate_id, order) ==
    LET Available(job_id) == job_postings[job_id].is_active
    IN  SelectSeq(Fetch(Len(job_postings), order), Available)

available_jobs(candidate_id, order) ==
    LET Available(job_id) ==
            /\ job_postings[job_id].is_active
            /\ job_id \notin applied_job_ids(candidate_id)
    IN  SelectSeq(Fetch(Len(job_postings), order), Available)

\* Faulty variant: a score of exactly 30 is kept.
job_matches_AtLeast(candidate_id, order) ==
    LET jobs   == available_jobs(candidate_id, order)
        scored == [i \in 1..Len(jobs) |->
                      [job_id |-> jobs[i],
                       match_score |->
                           calculate_job_match_score(candidate_id, jobs[i])]]
        Decent(match) == match.match_score >= RecommendThreshold
    IN  SelectSeq(scored, Decent)

job_matches(candidate_id, order) ==
    LET jobs   == available_jobs(candidate_id, order)
        scored == [i \in 1..Len(jobs) |->
                      [job_id |-> jobs[i],
                       match_score |->
                           calculate_job_match_score(candidate_id, jobs[i])]]
        Decent(match) == match.match_score > RecommendThreshold
    IN  SelectSeq(scored, Decent)

\* Faulty variant: reverse = True is missing, the order is ascending.
SortByScoreDesc_Ascending(matches) ==
    LET Insert(sorted, match) ==
            LET k == Cardinality({j \in 1..Len(sorted) :
                        sorted[j].match_score <= match.match_score})
            IN  SubSeq(sorted, 1, k) \o <<match>>
                \o SubSeq(sorted, k + 1, Len(sorted))
        placed[i \in Nat] ==
            IF i = 0 THEN <<>> ELSE Insert(placed[i - 1], matches[i])
    IN  placed[Len(matches)]

\* Faulty variant: the sort is not stable, an entry is put before the
\* entries already placed that have the same key.
SortByScoreDesc_Unstable(matches) ==
    LET Insert(sorted, match) ==
            LET k == Cardinality({j \in 1..Len(sorted) :
                        sorted[j].match_score > match.match_score})
            IN  SubSeq(sorted, 1, k) \o <<match>>
                \o SubSeq(sorted, k + 1, Len(sorted))
        placed[i \in Nat] ==
            IF i = 0 THEN <<>> ELSE Insert(placed[i - 1], matches[i])
    IN  placed[Len(matches)]

\* list.sort(key = match_score, reverse = True): descending, and stable, so
\* entries with equal keys keep their order.  Each entry in turn is put
\* behind the entries already placed whose key is not smaller.
SortByScoreDesc(matches) ==
    LET Insert(sorted, match) ==
            LET k == Cardinality({j \in 1..Len(sorted) :
                        sorted[j].match_score >= match.match_score})
            IN  SubSeq(sorted, 1, k) \o <<match>>
                \o SubSeq(sorted, k + 1, Len(sorted))
        placed[i \in Nat] ==
            IF i = 0 THEN <<>> ELSE Insert(placed[i - 1], matches[i])
    IN  placed[Len(matches)]

\* matches[:count]
Take(matches, count) ==
    SubSeq(matches, 1, IF Len(matches) < count THEN Len(matches) ELSE count)

\* Faulty variant: without a profile row the active postings are listed
\* unscored.
get_job_recommendations_Fallback(candidate_id, order) ==
    IF candidate_id \notin CandidateIds
    THEN LET Active(job_id) == job_postings[job_id].is_active
             jobs == SelectSeq(Fetch(Len(job_postings), order), Active)
         IN  Take([i \in 1..Len(jobs) |->
                      [job_id |-> jobs[i], match_score |-> 0]], TopN)
    ELSE Take(SortByScoreDesc(job_matches(candidate_id, order)), TopN)

\* Faulty variant: the list is cut to ten before it is sorted.
get_job_recommendations_CutFirst(candidate_id, order) ==
    IF candidate_id \notin CandidateIds THEN <<>>
    ELSE SortByScoreDesc(Take(job_matches(candidate_id, order), TopN))

get_job_recommendations(candidate_id, order) ==
    IF candidate_id \notin CandidateIds THEN <<>>
    ELSE Take(SortByScoreDesc(job_matches(candidate_id, order)), TopN)

\* Faulty variant: a notification is written for the best recommendation.
candidate_recommendations_Notifying(candidate_id, order) ==
    LET recs == get_job_recommendations(candidate_id, order)
    IN  /\ response' = [route |-> "candidate_recommendations",
                        candidate_id |-> candidate_id,
                        recommendations |-> recs]
        /\ notifications' =
               IF recs = <<>> THEN notifications
               ELSE notifications \cup
                       {[user_id |-> candidate_profiles[candidate_id].user_id,
                         notification_type |-> "job_match",
                         job_id |-> Some(recs[1].job_id),
                         match_score |-> Some(recs[1].match_score)]}
        /\ UNCHANGED <<users, candidate_profiles, candidate_skills,
                       job_postings, job_required_skills, job_applications,
                       error_log, remembered, requests>>

\* GET /candidate/recommendations by the user of candidate_id, who has a
\* profile row (the route reads profile.id).
candidate_recommendations(candidate_id, order) ==
    /\ candidate_id \in CandidateIds
    /\ response' = [route |-> "candidate_recommendations",
                    candidate_id |-> candidate_id,
                    recommendations |->
                        get_job_recommendations(candidate_id, order)]
    /\ UNCHANGED <<store, remembered, requests>>

(***************************************************************************)
(* create_notification and notify_matching_candidates.  The INSERT of a    *)
(* notification may fail (the connection drops, the row is rejected): the  *)
(* session is rolled back, the error is logged, nothing is raised.         *)
(* `failing' is the set of user ids whose INSERT fails in this request;    *)
(* failures are explored for the match notifications of create_job, the    *)
(* other handlers are followed with every INSERT succeeding.  Rows of      *)
(* notifications that differ only in id and created_at are one row.        *)
(***************************************************************************)
NotifyThreshold == 70

Notification(user_id, notification_type, job_id, match_score) ==
    [user_id |-> user_id, notification_type |-> notification_type,
     job_id |-> job_id, match_score |-> match_score]

JobMatch(user_id, job_id, match_score) ==
    Notification(user_id, "job_match", Some(job_id), Some(match_score))

\* Faulty variant: the INSERT is not wrapped in try / except, its failure
\* is raised to the caller.
create_notification_Unguarded(db, row, failing) ==
    IF row.user_id \in failing
    THEN [rows |-> db.rows, log |-> db.log, raised |-> TRUE]
    ELSE [rows |-> db.rows \cup {row}, log |-> db.log, raised |-> FALSE]

\* Faulty variant: the rollback after a failed INSERT also takes back the
\* match notifications written before it for the same posting.
create_notification_Retracting(db, row, failing) ==
    IF row.user_id \in failing
    THEN [rows |-> {n \in db.rows :
                       ~ (/\ n.notification_type = "job_match"
                          /\ n.job_id = row.job_id)},
          log  |-> db.log \cup {"Error creating notification"},
          raised |-> FALSE]
    ELSE [rows |-> db.rows \cup {row}, log |-> db.log, raised |-> FALSE]

\* create_notification(row) on the tables db = [rows, log]: the tables
\* afterwards, and whether an exception leaves the function.  `except
\* Exception' catches the failure of the INSERT, so none does.
create_notification(db, row, failing) ==
    IF row.user_id \in failing
    THEN [rows |-> db.rows,
          log  |-> db.log \cup {"Error creating notification"},
          raised |-> FALSE]
    ELSE [rows |-> db.rows \cup {row}, log |-> db.log, raised |-> FALSE]

\* The tables after the create_notification calls of one request, in order.
\* An exception that leaves one call ends the loop.
create_notifications(db, calls, failing) ==
    LET loop[i \in Nat] ==
            IF i = 0 THEN [rows |-> db.rows, log |-> db.log, raised |-> FALSE]
            ELSE IF loop[i - 1].raised THEN loop[i - 1]
            ELSE create_notification(loop[i - 1], calls[i], failing)
    IN  loop[Len(calls)]

\* Faulty variant: the candidates are not filtered by User.is_active.
active_candidates_All == Fetch(Len(candidate_profiles), "asc")

\* The candidates of active users, in the order fetched.
active_candidates ==
    LET Active(candidate_id) ==
            users[candidate_profiles[candidate_id].user_id].is_active
    IN  SelectSeq(Fetch(Len(candidate_profiles), "asc"), Active)

\* Faulty variant: a score of exactly 70 does not notify.
notify_matching_candidates_Above(job_id) ==
    IF job_id \notin JobIds THEN <<>>
    ELSE LET candidates == active_candidates
             scored == [i \in 1..Len(candidates) |->
                           [user_id |->
                                candidate_profiles[candidates[i]].user_id,
                            notification_type |-> "job_match",
                            job_id |-> Some(job_id),
                            match_score |->
                                Some(calculate_job_match_score(candidates[i],
                                                               job_id))]]
             Match(row) == row.match_score[1] > NotifyThreshold
         IN  SelectSeq(scored, Match)

\* notify_matching_candidates(job_id): the create_notification calls it
\* makes, in order.
notify_matching_candidates(job_id) ==
    IF job_id \notin JobIds THEN <<>>
    ELSE LET candidates == active_candidates
             scored == [i \in 1..Len(candidates) |->
                           JobMatch(
                               candidate_profiles[candidates[i]].user_id,
                               job_id,
                               calculate_job_match_score(candidates[i],
                                                         job_id))]
             Match(row) == row.match_score[1] >= NotifyThreshold
         IN  SelectSeq(scored, Match)

(***************************************************************************)
(* The request handlers that write.                                        *)
(***************************************************************************)
MaxNewJobs == 1         \* postings created during a run
MaxApplications == 1    \* job_applications rows
NumSeedJobs == 11       \* postings in the table at the start

\* The forms posted to /create_job: posting and required-skill rows.
JobInputs ==
    <<[posting |-> Posting(10, Str(<<"b", "E", "r">>), Some(4), Some(5), TRUE),
       skills  |-> <<Req(1, "Required"), Req(2, "Required"),
                     Req(3, "Preferred"), Req(4, "Nice to have")>>],
      [posting |-> Posting(10, Str(<<>>), None, None, TRUE),
       skills  |-> <<Req(1, "Required"), Req(2, "Required"),
                     Req(3, "Required"), Req(4, "Required"),
                     Req(5, "Preferred")>>],
      [posting |-> Posting(0, Str(<<>>), None, None, TRUE),
       skills  |-> <<Req(1, "Required")>>],
      [posting |-> Posting(0, Str(<<>>), None, None, TRUE),
       skills  |-> <<>>]>>

\* The forms posted to /create_job during a run.
CreateInputs == {JobInputs[1], JobInputs[2]}

\* The forms posted to /candidate/profile.
ProfileInputs ==
    <<[years |-> 7, location |-> Str(<<"B", "e">>), salary |-> Some(5),
       skills |-> <<Has(1), Has(2), Has(3), Has(4), Has(5)>>],
      [years |-> 10, location |-> Str(<<"r", "b">>), salary |-> None,
       skills |-> <<Has(1), Has(2), Has(3), Has(5)>>]>>

\* POST /create_job: the posting and its required-skill rows are committed,
\* then notify_matching_candidates runs on the new posting.
create_job(form, failing) ==
    /\ Len(job_postings) < NumSeedJobs + MaxNewJobs
    /\ Len(form.skills) <= MaxRequiredSkills
    /\ job_postings' = Append(job_postings, form.posting)
    /\ job_required_skills' = Append(job_required_skills, form.skills)
    /\ UNCHANGED <<users, candidate_profiles, candidate_skills,
                   job_applications, remembered, requests>>
    /\ LET calls == notify_matching_candidates(Len(job_postings))'
           db    == create_notifications(
                        [rows |-> notifications, log |-> error_log],
                        calls, failing)
       IN  /\ notifications' = db.rows
           /\ error_log' = db.log
           /\ response' = [route |-> "create_job",
                           job_id |-> Len(job_postings) + 1,
                           emitted |-> calls,
                           status |-> IF db.raised THEN "error"
                                      ELSE "posted"]

\* POST /candidate/profile by the user of candidate_id: the profile row is
\* overwritten, the skill rows are replaced, a notification is written.
candidate_profile(candidate_id, form) ==
    /\ candidate_id \in CandidateIds
    /\ candidate_profiles' =
           [candidate_profiles EXCEPT ![candidate_id] =
               Profile(@.user_id, form.years, form.location, form.salary)]
    /\ candidate_skills' =
           [candidate_skills EXCEPT ![candidate_id] = form.skills]
    /\ UNCHANGED <<users, job_postings, job_required_skills,
                   job_applications, remembered, requests>>
    /\ LET db == create_notification(
                     [rows |-> notifications, log |-> error_log],
                     Notification(candidate_profiles[candidate_id].user_id,
                                  "system", None, None),
                     {})
       IN  /\ notifications' = db.rows
           /\ error_log' = db.log
    /\ response' = [route |-> "candidate_profile",
                    candidate_id |-> candidate_id]

\* The user that owns the company of every posting.
employer_user_id == Len(users)

\* POST /apply/<job_id> by the user of candidate_id.
apply_job(candidate_id, job_id) ==
    /\ candidate_id \in CandidateIds
    /\ job_id \in JobIds
    /\ UNCHANGED <<remembered, requests>>
    /\ IF \E i \in 1..Len(job_applications) :
             /\ job_applications[i].job_id = job_id
             /\ job_applications[i].candidate_id = candidate_id
       THEN /\ response' = [route |-> "apply_job",
                            status |-> "already applied"]
            /\ UNCHANGED store
       ELSE /\ Len(job_applications) < MaxApplications
            /\ job_applications' =
                   Append(job_applications,
                          [job_id |-> job_id, candidate_id |-> candidate_id])
            /\ UNCHANGED <<users, candidate_profiles, candidate_skills,
                           job_postings, job_required_skills>>
            /\ LET db == create_notification(
                             [rows |-> notifications, log |-> error_log],
                             Notification(employer_user_id, "application",
                                          Some(job_id), None),
                             {})
               IN  /\ notifications' = db.rows
                   /\ error_log' = db.log
            /\ response' = [route |-> "apply_job", status |-> "submitted"]

\* The table of postings at the start: the forms of JobInputs in turn, one
\* posting deactivated.
SeedPostings ==
    [i \in 1..NumSeedJobs |->
        [JobInputs[((i - 1) % Len(JobInputs)) + 1].posting
            EXCEPT !.is_active = (i # 4)]]

SeedRequiredSkills ==
    [i \in 1..NumSeedJobs |->
        JobInputs[((i - 1) % Len(JobInputs)) + 1].skills]

\* Two newly registered candidates (users 1 and 2), a candidate whose
\* account is deactivated (user 3) and an employer (user 4).
Init ==
    /\ users = <<[is_active |-> TRUE], [is_active |-> TRUE],
                 [is_active |-> FALSE], [is_active |-> TRUE]>>
    /\ candidate_profiles =
           <<Profile(1, 0, None, None), Profile(2, 0, None, None),
             Profile(3, ProfileInputs[2].years, ProfileInputs[2].location,
                     ProfileInputs[2].salary)>>
    /\ candidate_skills = << <<>>, <<>>, ProfileInputs[2].skills >>
    /\ job_postings = SeedPostings
    /\ job_required_skills = SeedRequiredSkills
    /\ job_applications = <<>>
    /\ notifications = {}
    /\ error_log = {}
    /\ response = [route |-> "none"]
    /\ remembered = None
    /\ requests = NoRequests

\* The postings the candidates look at and apply to: the first and the
\* new one.
AppliedJobInputs == {1, NumSeedJobs + 1}

\* The users whose notification INSERT may fail: none, or the first.
FailingInputs == SUBSET {candidate_profiles[1].user_id}

\* login: only the candidates of active users have a session.
LoggedIn ==
    {c \in CandidateIds : users[candidate_profiles[c].user_id].is_active}

\* The candidates that look at postings, and a user without a profile row.
Viewers == LoggedIn \cup {Len(candidate_profiles) + 1}

\* Each candidate fills in the profile form in their own way.
Next ==
    \/ \E candidate_id \in LoggedIn, order \in FetchOrders :
            candidate_recommendations(candidate_id, order)
    \/ \E form \in CreateInputs, failing \in FailingInputs :
            create_job(form, failing)
    \/ \E candidate_id \in LoggedIn :
            candidate_profile(candidate_id, ProfileInputs[candidate_id])
    \/ \E candidate_id \in LoggedIn, job_id \in AppliedJobInputs :
            apply_job(candidate_id, job_id)
    \/ \E candidate_id \in Viewers, job_id \in AppliedJobInputs :
            job_details(candidate_id, job_id)

\* The job pages alone, between profile edits with either form.
NextDet ==
    \/ \E candidate_id \in Viewers, job_id \in AppliedJobInputs :
            job_details(candidate_id, job_id)
    \/ \E candidate_id \in LoggedIn, k \in 1..Len(ProfileInputs) :
            candidate_profile(candidate_id, ProfileInputs[k])
    \/ remember_score

SpecDet == Init /\ [][NextDet]_vars

Spec == Init /\ [][Next]_vars

NextScore ==
    \E candidate_id \in 1..(Len(candidate_profiles) + 1),
       job_id \in 1..(Len(job_postings) + 1) :
        job_details(candidate_id, job_id)

SpecScore == InitScore /\ [][NextScore]_vars

(***************************************************************************)
(* get_job_recommendations and notify_matching_candidates called with any  *)
(* id, on the tables as the profile edits and the applications leave them. *)
(* No posting is created here, so the id NumSeedJobs + 1 resolves to none. *)
(***************************************************************************)
call_get_job_recommendations(candidate_id, order) ==
    /\ response' = [route |-> "get_job_recommendations",
                    candidate_id |-> candidate_id, order |-> order,
                    recommendations |->
                        get_job_recommendations(candidate_id, order)]
    /\ UNCHANGED <<store, remembered, requests>>

\* Faulty variant: a posting that is not found is reported in the log.
call_notify_matching_candidates_Reporting(job_id, failing) ==
    LET calls == notify_matching_candidates(job_id)
        db    == create_notifications(
                     [rows |-> notifications, log |-> error_log],
                     calls, failing)
    IN  /\ notifications' = db.rows
        /\ error_log' = IF job_id \in JobIds THEN db.log
                        ELSE db.log \cup {"Job not found"}
        /\ response' = [route |-> "notify_matching_candidates",
                        job_id |-> job_id, emitted |-> calls,
                        failing |-> failing, raised |-> db.raised]
        /\ UNCHANGED <<users, candidate_profiles, candidate_skills,
                       job_postings, job_required_skills, job_applications,
                       remembered, requests>>

\* notify_matching_candidates(job_id), the INSERT failing for the users of
\* `failing': what it emitted, and whether an exception left it.
call_notify_matching_candidates(job_id, failing) ==
    LET calls == notify_matching_candidates(job_id)
        db    == create_notifications(
                     [rows |-> notifications, log |-> error_log],
                     calls, failing)
    IN  /\ notifications' = db.rows
        /\ error_log' = db.log
        /\ response' = [route |-> "notify_matching_candidates",
                        job_id |-> job_id, emitted |-> calls,
                        failing |-> failing, raised |-> db.raised]
        /\ UNCHANGED <<users, candidate_profiles, candidate_skills,
                       job_postings, job_required_skills, job_applications,
                       remembered, requests>>

NextCalls ==
    \/ \E candidate_id \in 1..(Len(candidate_profiles) + 1),
          order \in FetchOrders :
            call_get_job_recommendations(candidate_id, order)
    \/ \E job_id \in AppliedJobInputs, failing \in FailingInputs :
            call_notify_matching_candidates(job_id, failing)
    \/ \E candidate_id \in LoggedIn :
            candidate_profile(candidate_id, ProfileInputs[candidate_id])
    \/ \E candidate_id \in LoggedIn, job_id \in AppliedJobInputs :
            apply_job(candidate_id, job_id)

SpecCalls == Init /\ [][NextCalls]_vars

(***************************************************************************)
(* GET /candidate/skill_analysis: the required skills of the first         *)
(* recommended postings, split into those the candidate holds and those    *)
(* the candidate lacks.                                                    *)
(***************************************************************************)
AnalysedTop == 5

\* Faulty variant: the ids of the candidate_skills rows are taken for the
\* ids of the skills.
candidate_skill_ids_RowIds(candidate_id) ==
    DOMAIN candidate_skills[candidate_id]

\* [cs.skill_id for cs, _ in candidate_skills]
candidate_skill_ids(candidate_id) ==
    {candidate_skills[candidate_id][i].skill_id :
        i \in DOMAIN candidate_skills[candidate_id]}

\* One pass of the loop: the entry appended for the recommendation rec.
skill_gap(candidate_id, rec) ==
    LET required == job_required_skills[rec.job_id]
        entries  == [i \in DOMAIN required |->
                        [skill_id   |-> required[i].skill_id,
                         importance |-> required[i].importance]]
        Held(entry) == entry.skill_id \in candidate_skill_ids(candidate_id)
        Lacked(entry) == ~ Held(entry)
    IN  [job_id          |-> rec.job_id,
         match_score     |-> rec.match_score,
         matching_skills |-> SelectSeq(entries, Held),
         missing_skills  |-> SelectSeq(entries, Lacked)]

\* Faulty variant: every recommendation is analysed.
skill_gap_analysis_Uncut(candidate_id, recommendations) ==
    [i \in DOMAIN recommendations |->
        skill_gap(candidate_id, recommendations[i])]

\* for rec in recommendations[:5]
skill_gap_analysis(candidate_id, recommendations) ==
    LET top == Take(recommendations, AnalysedTop)
    IN  [i \in DOMAIN top |-> skill_gap(candidate_id, top[i])]

\* The request of the user of candidate_id, who has a profile row (the
\* route reads profile.id).
candidate_skill_analysis(candidate_id, order) ==
    /\ candidate_id \in CandidateIds
    /\ LET recommendations == get_job_recommendations(candidate_id, order)
       IN  response' = [route |-> "candidate_skill_analysis",
                        candidate_id |-> candidate_id,
                        recommendations |-> recommendations,
                        skill_gap_analysis |->
                            skill_gap_analysis(candidate_id,
                                               recommendations)]
    /\ UNCHANGED <<store, remembered, requests>>

NextAnalysis ==
    \/ \E candidate_id \in LoggedIn, order \in FetchOrders :
            candidate_skill_analysis(candidate_id, order)
    \/ \E candidate_id \in LoggedIn, k \in 1..Len(ProfileInputs) :
            candidate_profile(candidate_id, ProfileInputs[k])
    \/ \E candidate_id \in LoggedIn, job_id \in AppliedJobInputs :
            apply_job(candidate_id, job_id)

SpecAnalysis == Init /\ [][NextAnalysis]_vars

(***************************************************************************)
(* The score of one candidate for one posting as the skill rows vary: the  *)
(* candidate and the posting of the Berlin scenario, the posting with up   *)
(* to MaxRequiredSkills required-skill rows, the candidate holding the     *)
(* first few of the skills.                                                *)
(***************************************************************************)
Berlin == Str(<<"B", "e", "r", "l", "i", "n">>)
BerlinGermany ==
    Str(<<"B", "e", "r", "l", "i", "n", ",", " ",
          "G", "e", "r", "m", "a", "n", "y">>)

\* Money is kept in cents: 60000.00, 50000.00 and 70000.00.
ScenarioExpectation == Some(60000 * 100)
ScenarioSalaryMin == Some(50000 * 100)
ScenarioSalaryMax == Some(70000 * 100)

\* How the importance of the rows of a posting is chosen.
ImportancePatterns == {"all required", "first preferred", "in turn"}

ImportanceAt(pattern, i) ==
    IF pattern = "all required" THEN "Required"
    ELSE IF pattern = "first preferred"
         THEN (IF i = 1 THEN "Preferred" ELSE "Required")
    ELSE IF i % 3 = 1 THEN "Required"
    ELSE IF i % 3 = 2 THEN "Preferred"
    ELSE "Nice to have"

\* n job_required_skills rows, for the skills 1..n
RequiredRows(n, pattern, min_years) ==
    [i \in 1..n |->
        [skill_id |-> i, importance |-> ImportanceAt(pattern, i),
         min_years_experience |-> min_years]]

\* k candidate_skills rows, for the skills 1..k
HeldRows(k, level, years) ==
    [i \in 1..k |->
        [skill_id |-> i, proficiency_level |-> level,
         years_experience |-> years]]

ProficiencyInputs == {<<"Beginner", 0>>, <<"Expert", 9>>}
MinYearsInputs == {0, 2}
ScenarioExperienceInputs == {0, 5}

InitSkills ==
    /\ users = <<[is_active |-> TRUE]>>
    /\ \E have \in ScenarioExperienceInputs :
          candidate_profiles = <<Profile(1, have, Berlin, ScenarioExpectation)>>
    /\ \E k \in 0..MaxRequiredSkills, held \in ProficiencyInputs :
          candidate_skills = <<HeldRows(k, held[1], held[2])>>
    /\ job_postings = <<Posting(5, BerlinGermany, ScenarioSalaryMin,
                                ScenarioSalaryMax, TRUE)>>
    /\ \E n \in 0..MaxRequiredSkills, pattern \in ImportancePatterns,
          min_years \in MinYearsInputs :
            job_required_skills = <<RequiredRows(n, pattern, min_years)>>
    /\ job_applications = <<>>
    /\ notifications = {}
    /\ error_log = {}
    /\ response = [route |-> "none"]
    /\ remembered = None
    /\ requests = NoRequests

SpecSkills == InitSkills /\ [][NextScore]_vars

(***************************************************************************)
(* The score as the two locations vary, the rest kept small.               *)
(***************************************************************************)
LocationInputs ==
    {None, Str(<<>>), Str(<<" ">>), Str(<<"b">>), Str(<<"B", "e">>),
     Str(<<"b", "E", "r">>), Str(<<"r", "b">>), Berlin, BerlinGermany}

InitLocation ==
    /\ users = <<[is_active |-> TRUE]>>
    /\ \E have \in ScenarioExperienceInputs, location \in LocationInputs :
          candidate_profiles = <<Profile(1, have, location, None)>>
    /\ candidate_skills = << <<Has(1)>> >>
    /\ \E location \in LocationInputs :
          job_postings = <<Posting(5, location, None, None, TRUE)>>
    /\ \E n \in 0..1 :
          job_required_skills = <<RequiredRows(n, "all required", 0)>>
    /\ job_applications = <<>>
    /\ notifications = {}
    /\ error_log = {}
    /\ response = [route |-> "none"]
    /\ remembered = None
    /\ requests = NoRequests

SpecLocation == InitLocation /\ [][NextScore]_vars

(***************************************************************************)
(* The score as the three salary values vary, the rest kept small.  The    *)
(* amounts are in cents: a few cents, and the amounts of the scenario with *)
(* the tolerance bound 84000.00 and one cent more.                         *)
(***************************************************************************)
ExpectationInputs ==
    {None, Some(0), Some(3), Some(4), Some(5), Some(6), Some(7),
     ScenarioExpectation, Some(84000 * 100), Some(84000 * 100 + 1)}

SalaryMinInputs == {None, Some(0), Some(4), Some(7), ScenarioSalaryMin}
SalaryMaxInputs == {None, Some(0), Some(5), ScenarioSalaryMax}

InitSalary ==
    /\ users = <<[is_active |-> TRUE]>>
    /\ \E have \in ScenarioExperienceInputs, salary \in ExpectationInputs :
          candidate_profiles = <<Profile(1, have, Berlin, salary)>>
    /\ candidate_skills = << <<Has(1)>> >>
    /\ \E salary_min \in SalaryMinInputs, salary_max \in SalaryMaxInputs :
          job_postings =
              <<Posting(5, BerlinGermany, salary_min, salary_max, TRUE)>>
    /\ \E n \in 0..1 :
          job_required_skills = <<RequiredRows(n, "all required", 0)>>
    /\ job_applications = <<>>
    /\ notifications = {}
    /\ error_log = {}
    /\ response = [route |-> "none"]
    /\ remembered = None
    /\ requests = NoRequests

SpecSalary == InitSalary /\ [][NextScore]_vars

(***************************************************************************)
(* Requests served at the same time (the server is threaded, each request  *)
(* has its own database session): a handler runs from one database         *)
(* round trip to the next while the other requests wait.                   *)
(***************************************************************************)
Idle(r) == requests[r].handler = "none"

Finish(r) == [requests EXCEPT ![r] = [handler |-> "none"]]

\* POST /apply/<job_id>, up to the query for an existing application.
apply_job_check(r, candidate_id, job_id) ==
    /\ Idle(r)
    /\ candidate_id \in CandidateIds
    /\ job_id \in JobIds
    /\ UNCHANGED <<store, remembered>>
    /\ IF \E i \in 1..Len(job_applications) :
             /\ job_applications[i].job_id = job_id
             /\ job_applications[i].candidate_id = candidate_id
       THEN /\ response' = [route |-> "apply_job",
                            status |-> "already applied"]
            /\ UNCHANGED requests
       ELSE /\ requests' = [requests EXCEPT ![r] =
                               [handler |-> "apply_job", pc |-> "insert",
                                candidate_id |-> candidate_id,
                                job_id |-> job_id]]
            /\ UNCHANGED response

\* The rest of the handler: the application row is inserted and the
\* employer is notified.
apply_job_insert(r) ==
    /\ requests[r].handler = "apply_job"
    /\ Len(job_applications) < MaxRequests
    /\ job_applications' =
           Append(job_applications,
                  [job_id |-> requests[r].job_id,
                   candidate_id |-> requests[r].candidate_id])
    /\ LET db == create_notification(
                     [rows |-> notifications, log |-> error_log],
                     Notification(employer_user_id, "application",
                                  Some(requests[r].job_id), None),
                     {})
       IN  /\ notifications' = db.rows
           /\ error_log' = db.log
    /\ response' = [route |-> "apply_job", status |-> "submitted"]
    /\ requests' = Finish(r)
    /\ UNCHANGED <<users, candidate_profiles, candidate_skills,
                   job_postings, job_required_skills, remembered>>

NextApply ==
    \/ \E r \in 1..MaxRequests, candidate_id \in LoggedIn,
          job_id \in AppliedJobInputs \cup {2} :
            apply_job_check(r, candidate_id, job_id)
    \/ \E r \in 1..MaxRequests : apply_job_insert(r)

SpecApply == Init /\ [][NextApply]_vars

(***************************************************************************)
(* calculate_job_match_score called from several requests at once.  Each   *)
(* call keeps its rows and its running score in local variables; the      *)
(* steps are its four queries.                                             *)
(***************************************************************************)
Scoring(r) == requests[r].handler = "calculate_job_match_score"

\* Faulty variant: score is a module-level variable, a call reads the value
\* the first call in progress left in it.
ScoreOf_Shared(r) ==
    requests[CHOOSE q \in 1..MaxRequests :
                /\ Scoring(q)
                /\ requests[q].pc \in {"required_skills", "candidate_skills"}
                /\ \A p \in 1..(q - 1) :
                      ~ (/\ Scoring(p)
                         /\ requests[p].pc \in {"required_skills",
                                                "candidate_skills"})].score

\* The local variable score of call r.
ScoreOf(r) == requests[r].score

\* candidate = CandidateProfile.query.get(candidate_id)
score_get_candidate(r, candidate_id, job_id) ==
    /\ Idle(r)
    /\ requests' = [requests EXCEPT ![r] =
           [handler |-> "calculate_job_match_score", pc |-> "get_job",
            candidate_id |-> candidate_id, job_id |-> job_id,
            candidate |-> IF candidate_id \in CandidateIds
                          THEN Some(candidate_profiles[candidate_id])
                          ELSE None]]
    /\ UNCHANGED <<store, response, remembered>>

\* job = JobPosting.query.get(job_id); return 0 if a row is missing, else
\* score = 0 and the experience points are added.
score_get_job(r) ==
    /\ Scoring(r)
    /\ requests[r].pc = "get_job"
    /\ requests' = [requests EXCEPT ![r] =
           IF requests[r].candidate = None \/ requests[r].job_id \notin JobIds
           THEN [handler |-> "calculate_job_match_score", pc |-> "returned",
                 candidate_id |-> @.candidate_id, job_id |-> @.job_id,
                 result |-> 0]
           ELSE [handler |-> "calculate_job_match_score",
                 pc |-> "required_skills",
                 candidate_id |-> @.candidate_id, job_id |-> @.job_id,
                 candidate |-> @.candidate[1],
                 job |-> job_postings[@.job_id],
                 score |-> ExperiencePoints(@.candidate[1],
                                            job_postings[@.job_id])]]
    /\ UNCHANGED <<store, response, remembered>>

\* required_skills = JobRequiredSkill.query.filter_by(job_id=job_id).all()
score_required_skills(r) ==
    /\ Scoring(r)
    /\ requests[r].pc = "required_skills"
    /\ requests' = [requests EXCEPT ![r] =
           [handler |-> "calculate_job_match_score",
            pc |-> "candidate_skills",
            candidate_id |-> @.candidate_id, job_id |-> @.job_id,
            candidate |-> @.candidate, job |-> @.job, score |-> @.score,
            required_skills |-> job_required_skills[@.job_id]]]
    /\ UNCHANGED <<store, response, remembered>>

\* candidate_skills = CandidateSkill.query.filter_by(...).all(), then the
\* skill, location and salary points are added and min(score, 100) is
\* returned.
score_candidate_skills(r) ==
    /\ Scoring(r)
    /\ requests[r].pc = "candidate_skills"
    /\ LET call  == requests[r]
           score == ScoreOf(r)
                    + SkillPoints(call.required_skills,
                                  candidate_skills[call.candidate_id])
                    + LocationPoints(call.candidate, call.job)
                    + SalaryPoints(call.candidate, call.job)
       IN  requests' = [requests EXCEPT ![r] =
               [handler |-> "calculate_job_match_score", pc |-> "returned",
                candidate_id |-> call.candidate_id, job_id |-> call.job_id,
                result |-> IF score < MaxScore THEN score ELSE MaxScore]]
    /\ UNCHANGED <<store, response, remembered>>

\* The caller takes the value returned.
score_return(r) ==
    /\ Scoring(r)
    /\ requests[r].pc = "returned"
    /\ requests' = Finish(r)
    /\ response' = [route |-> "calculate_job_match_score",
                    candidate_id |-> requests[r].candidate_id,
                    job_id |-> requests[r].job_id,
                    match_score |-> requests[r].result]
    /\ UNCHANGED <<store, remembered>>

NextScoring ==
    \/ \E r \in 1..MaxRequests,
          candidate_id \in 1..(Len(candidate_profiles) + 1),
          job_id \in AppliedJobInputs \cup {2} :
            score_get_candidate(r, candidate_id, job_id)
    \/ \E r \in 1..MaxRequests : score_get_job(r)
    \/ \E r \in 1..MaxRequests : score_required_skills(r)
    \/ \E r \in 1..MaxRequests : score_candidate_skills(r)
    \/ \E r \in 1..MaxRequests : score_return(r)

SpecScoring == Init /\ [][NextScoring]_vars

(***************************************************************************)
(* POST /create_job followed commit by commit: the posting and its         *)
(* required-skill rows are committed together, then                        *)
(* notify_matching_candidates runs its loop, one candidate and at most one *)
(* committed notification per pass, while other requests edit profiles.    *)
(* The batch may stop between two passes: the server shuts down, or a      *)
(* query raises and create_job's except clause rolls the session back.     *)
(*   requests[r].notified  the job ids notify_matching_candidates was      *)
(*                         called with by this request                     *)
(*   requests[r].sent      the create_notification calls made so far, each *)
(*                         with whether its INSERT was committed           *)
(***************************************************************************)
Creating(r) == requests[r].handler = "create_job"

\* Faulty variant: when the form or the commit fails the handler still goes
\* on to the notifier.
create_job_commit_NotifyAnyway(r, form, invalid) ==
    /\ Idle(r)
    /\ Len(job_postings) < NumSeedJobs + MaxNewJobs
    /\ Len(form.skills) <= MaxRequiredSkills
    /\ IF invalid
       THEN UNCHANGED <<job_postings, job_required_skills>>
       ELSE /\ job_postings' = Append(job_postings, form.posting)
            /\ job_required_skills' = Append(job_required_skills, form.skills)
    /\ requests' = [requests EXCEPT ![r] =
                       [handler |-> "create_job", pc |-> "notify",
                        job_id |-> Len(job_postings) + 1,
                        skills |-> form.skills,
                        notified |-> <<>>, sent |-> <<>>]]
    /\ UNCHANGED <<users, candidate_profiles, candidate_skills,
                   job_applications, notifications, error_log, response,
                   remembered>>

\* The try block up to db.session.commit().  `invalid': a form field is
\* rejected by int() or float(), or the commit fails; the except clause
\* rolls back and the handler ends.
create_job_commit(r, form, invalid) ==
    /\ Idle(r)
    /\ Len(job_postings) < NumSeedJobs + MaxNewJobs
    /\ Len(form.skills) <= MaxRequiredSkills
    /\ UNCHANGED <<users, candidate_profiles, candidate_skills,
                   job_applications, notifications, error_log, remembered>>
    /\ IF invalid
       THEN /\ response' = [route |-> "create_job", status |-> "error",
                            job_id |-> None, notified |-> <<>>,
                            sent |-> <<>>]
            /\ UNCHANGED <<job_postings, job_required_skills, requests>>
       ELSE /\ job_postings' = Append(job_postings, form.posting)
            /\ job_required_skills' = Append(job_required_skills, form.skills)
            /\ requests' = [requests EXCEPT ![r] =
                               [handler |-> "create_job", pc |-> "notify",
                                job_id |-> Len(job_postings) + 1,
                                skills |-> form.skills,
                                notified |-> <<>>, sent |-> <<>>]]
            /\ UNCHANGED response

\* notify_matching_candidates(new_job.id) is called: the posting and the
\* candidates of active users are fetched; without the posting the call
\* returns at once.
create_job_notify(r) ==
    /\ Creating(r)
    /\ requests[r].pc = "notify"
    /\ requests' = [requests EXCEPT ![r] =
           [handler |-> "create_job",
            pc |-> "loop",
            job_id |-> @.job_id, skills |-> @.skills,
            notified |-> Append(@.notified, @.job_id), sent |-> @.sent,
            candidates |-> IF @.job_id \in JobIds THEN active_candidates
                           ELSE <<>>,
            i |-> 1]]
    /\ UNCHANGED <<store, response, remembered>>

\* One pass of the loop: the candidate is scored and, at 70 or more,
\* create_notification is called; `fails': its INSERT fails.
notify_pass(r, fails) ==
    /\ Creating(r)
    /\ requests[r].pc = "loop"
    /\ requests[r].i <= Len(requests[r].candidates)
    /\ LET call  == requests[r]
           candidate_id == call.candidates[call.i]
           match_score  == calculate_job_match_score(candidate_id,
                                                     call.job_id)
           row == JobMatch(candidate_profiles[candidate_id].user_id,
                           call.job_id, match_score)
           db  == create_notification(
                      [rows |-> notifications, log |-> error_log], row,
                      IF fails THEN {row.user_id} ELSE {})
       IN  IF match_score >= NotifyThreshold
           THEN /\ notifications' = db.rows
                /\ error_log' = db.log
                /\ requests' = [requests EXCEPT
                       ![r].i = @ + 1,
                       ![r].sent = Append(@, [row |-> row,
                                              committed |-> ~ fails])]
           ELSE /\ ~ fails
                /\ requests' = [requests EXCEPT ![r].i = @ + 1]
                /\ UNCHANGED <<notifications, error_log>>
    /\ UNCHANGED <<users, candidate_profiles, candidate_skills, job_postings,
                   job_required_skills, job_applications, response,
                   remembered>>

\* The loop is over: 'Job posted successfully!'
create_job_return(r) ==
    /\ Creating(r)
    /\ requests[r].pc = "loop"
    /\ requests[r].i > Len(requests[r].candidates)
    /\ response' = [route |-> "create_job", status |-> "posted",
                    job_id |-> Some(requests[r].job_id),
                    notified |-> requests[r].notified,
                    sent |-> requests[r].sent]
    /\ requests' = Finish(r)
    /\ UNCHANGED <<store, remembered>>

\* The batch stops before its next pass; what is not committed is rolled
\* back, and each notification was committed by its own call.
notify_stop(r) ==
    /\ Creating(r)
    /\ requests[r].pc = "loop"
    /\ requests[r].i <= Len(requests[r].candidates)
    /\ response' = [route |-> "create_job", status |-> "stopped",
                    job_id |-> Some(requests[r].job_id),
                    notified |-> requests[r].notified,
                    sent |-> requests[r].sent]
    /\ requests' = Finish(r)
    /\ UNCHANGED <<store, remembered>>

NextBatch ==
    \/ \E r \in 1..MaxRequests, form \in CreateInputs, invalid \in BOOLEAN :
            create_job_commit(r, form, invalid)
    \/ \E r \in 1..MaxRequests : create_job_notify(r)
    \/ \E r \in 1..MaxRequests, fails \in BOOLEAN : notify_pass(r, fails)
    \/ \E r \in 1..MaxRequests : create_job_return(r)
    \/ \E r \in 1..MaxRequests : notify_stop(r)
    \/ \E candidate_id \in LoggedIn :
            candidate_profile(candidate_id, ProfileInputs[candidate_id])

SpecBatch == Init /\ [][NextBatch]_vars

(***************************************************************************)
(* Properties.                                                             *)
(***************************************************************************)
IsRecommendations == response.route = "candidate_recommendations"

IsJobPage ==
    /\ response.route = "job_details"
    /\ response.status = "ok"
    /\ response.read # None

UserOf(candidate_id) == candidate_profiles[candidate_id].user_id

\* C1: every score returned by calculate_job_match_score is an integer
\* from 0 to 100.
C1_ScoreInRange ==
    (response.route = "job_details" /\ response.status = "ok")
        => response.match_score \in 0..100

C1_Witness == IsJobPage /\ response.match_score = 100

\* C2: after one run of notify_matching_candidates for a posting, each
\* candidate of an active user has a job_match notification emitted for
\* that posting exactly when the candidate's score for it is at least 70.
C2_NotifiedIffAtLeast70 ==
    response.route = "create_job" =>
        \A c \in CandidateIds :
            users[UserOf(c)].is_active =>
                ((\E i \in 1..Len(response.emitted) :
                     /\ response.emitted[i].user_id = UserOf(c)
                     /\ response.emitted[i].notification_type = "job_match"
                     /\ response.emitted[i].job_id = Some(response.job_id))
                 <=> calculate_job_match_score(c, response.job_id) >= 70)

C2_Witness ==
    /\ response.route = "create_job"
    /\ \E c \in CandidateIds :
          /\ users[UserOf(c)].is_active
          /\ calculate_job_match_score(c, response.job_id) = 70
          /\ \E i \in 1..Len(response.emitted) :
                response.emitted[i].user_id = UserOf(c)
    /\ \E c \in CandidateIds :
          /\ users[UserOf(c)].is_active
          /\ calculate_job_match_score(c, response.job_id) = 69
          /\ \A i \in 1..Len(response.emitted) :
                response.emitted[i].user_id # UserOf(c)

\* C3: a posting the candidate has applied to is in no list of
\* recommendations returned to that candidate afterwards, and application
\* rows are never removed.
C3_AppliedNeverRecommended ==
    /\ [](IsRecommendations =>
            \A i \in 1..Len(response.recommendations) :
                \A k \in 1..Len(job_applications) :
                    ~ /\ job_applications[k].candidate_id
                            = response.candidate_id
                      /\ job_applications[k].job_id
                            = response.recommendations[i].job_id)
    /\ [][SubSeq(job_applications', 1, Len(job_applications))
            = job_applications]_vars

C3_Witness ==
    /\ IsRecommendations
    /\ response.recommendations # <<>>
    /\ \E k \in 1..Len(job_applications) :
          /\ job_applications[k].candidate_id = response.candidate_id
          /\ job_postings[job_applications[k].job_id].is_active
          /\ calculate_job_match_score(response.candidate_id,
                                       job_applications[k].job_id) > 30

\* C4: the recommendations are in descending order of match score.
C4_SortedDescending ==
    IsRecommendations =>
        \A i \in 1..(Len(response.recommendations) - 1) :
            response.recommendations[i].match_score
                >= response.recommendations[i + 1].match_score

\* The list has a strict drop in score and is in neither fetch order.
C4_Witness ==
    /\ IsRecommendations
    /\ \E i, k, n \in 1..(Len(response.recommendations) - 1) :
          /\ response.recommendations[i].match_score
                > response.recommendations[i + 1].match_score
          /\ response.recommendations[k].job_id
                > response.recommendations[k + 1].job_id
          /\ response.recommendations[n].job_id
                < response.recommendations[n + 1].job_id

\* C5: every recommendation is an active posting whose score for the
\* candidate is above 30, no posting is listed twice, and there are at
\* most 10 of them.
C5_ActiveAbove30AtMost10 ==
    IsRecommendations =>
        LET recs == response.recommendations
        IN  /\ Len(recs) <= 10
            /\ \A i \in 1..Len(recs) :
                  /\ recs[i].job_id \in JobIds
                  /\ job_postings[recs[i].job_id].is_active
                  /\ recs[i].match_score
                        = calculate_job_match_score(response.candidate_id,
                                                    recs[i].job_id)
                  /\ recs[i].match_score > 30
            /\ \A i, k \in 1..Len(recs) :
                  recs[i].job_id = recs[k].job_id => i = k

C5_Witness ==
    /\ IsRecommendations
    /\ response.recommendations # <<>>
    /\ \E j \in JobIds :
          /\ job_postings[j].is_active
          /\ calculate_job_match_score(response.candidate_id, j) = 30
    /\ \E j \in JobIds :
          /\ ~ job_postings[j].is_active
          /\ calculate_job_match_score(response.candidate_id, j) > 30

\* The postings that may be recommended to the candidate.
Eligible(candidate_id) ==
    {j \in JobIds :
        /\ job_postings[j].is_active
        /\ \A k \in 1..Len(job_applications) :
              ~ /\ job_applications[k].candidate_id = candidate_id
                /\ job_applications[k].job_id = j
        /\ calculate_job_match_score(candidate_id, j) > 30}

\* C6: the recommendations are the best eligible postings: there are
\* min(10, number of eligible postings) of them and no eligible posting
\* left out scores more than a posting that is listed.
C6_BestEligible ==
    IsRecommendations =>
        LET recs     == response.recommendations
            eligible == Eligible(response.candidate_id)
            listed   == {recs[i].job_id : i \in 1..Len(recs)}
        IN  /\ Len(recs) = IF Cardinality(eligible) < 10
                           THEN Cardinality(eligible) ELSE 10
            /\ \A j \in eligible \ listed : \A i \in 1..Len(recs) :
                  calculate_job_match_score(response.candidate_id, j)
                      <= recs[i].match_score

C6_Witness ==
    /\ IsRecommendations
    /\ Cardinality(Eligible(response.candidate_id)) > 10
    /\ Len(response.recommendations) = 10

C8_QueriesChangeNothing ==
    [][(/\ response'.route \in {"job_details", "candidate_recommendations"}
        /\ response' # response)
           => UNCHANGED store]_vars

C8_Witness ==
    /\ IsRecommendations
    /\ response.recommendations # <<>>
    /\ notifications # {}
    /\ job_applications # <<>>

\* The experience tiers in exact integer arithmetic.
ExactExperiencePoints(have, req) ==
    IF have >= req THEN 30
    ELSE IF 10 * have >= 7 * req THEN 20
    ELSE IF 2 * have >= req THEN 10
    ELSE 0

\* C9: the experience component is 30 when have >= req, else 20 when
\* 10 * have >= 7 * req, else 10 when 2 * have >= req, else 0, it is 30
\* whenever req = 0, and the returned score is built from it.
C9_ExperienceTiers ==
    IsJobPage =>
        LET read == response.read[1]
            have == read.candidate.experience_years
            req  == read.job.experience_required
            rest == SkillPoints(read.required_skills, read.candidate_skills)
                    + LocationPoints(read.candidate, read.job)
                    + SalaryPoints(read.candidate, read.job)
            sum  == ExactExperiencePoints(have, req) + rest
        IN  /\ ExperiencePoints(read.candidate, read.job)
                  = ExactExperiencePoints(have, req)
            /\ req = 0 => ExperiencePoints(read.candidate, read.job) = 30
            /\ response.match_score = IF sum < 100 THEN sum ELSE 100

\* have is exactly 0.7 * req.
C9_Witness ==
    /\ IsJobPage
    /\ response.read[1].job.experience_required > 0
    /\ 10 * response.read[1].candidate.experience_years
          = 7 * response.read[1].job.experience_required
    /\ ExperiencePoints(response.read[1].candidate, response.read[1].job) = 20

\* C10: with everything else as it is, a larger experience_years gives an
\* experience component and a score that are not smaller.
C10_ExperienceMonotone ==
    IsJobPage =>
        LET read == response.read[1]
        IN  \A more \in ExperienceInputs :
                more >= read.candidate.experience_years =>
                    LET raised == [read.candidate EXCEPT
                                      !.experience_years = more]
                    IN  /\ ExperiencePoints(raised, read.job)
                              >= ExperiencePoints(read.candidate, read.job)
                        /\ MatchScore(raised, read.job, read.required_skills,
                                      read.candidate_skills)
                              >= response.match_score

\* Some larger experience_years gives a strictly larger score.
C10_Witness ==
    /\ IsJobPage
    /\ \E more \in ExperienceInputs :
          /\ more > response.read[1].candidate.experience_years
          /\ MatchScore([response.read[1].candidate EXCEPT
                            !.experience_years = more],
                        response.read[1].job,
                        response.read[1].required_skills,
                        response.read[1].candidate_skills)
                > response.match_score

\* The skills component in exact integer arithmetic, from the skill ids and
\* the importance of the rows alone.
ExactSkillPoints(required, held_rows) ==
    LET held  == {held_rows[i].skill_id :
                     i \in 1..Len(held_rows)}
        W(i)  == IF required[i].importance = "Required" THEN 3
                 ELSE IF required[i].importance = "Preferred" THEN 2
                 ELSE 1
        total[i \in 0..Len(required)] ==
            IF i = 0 THEN 0 ELSE total[i - 1] + W(i)
        matched[i \in 0..Len(required)] ==
            IF i = 0 THEN 0
            ELSE matched[i - 1]
                 + (IF required[i].skill_id \in held THEN W(i) ELSE 0)
    IN  (matched[Len(required)] * 50) \div total[Len(required)]

\* C11: for a posting with at least one required skill the skills
\* component is floor(matchedWeight * 50 / totalWeight) with the weights
\* 3, 2, 1, whatever the proficiencies, years and minimum years are; the
\* score returned is built from it, a full match gives 50 and no match 0.
C11_SkillsFloor ==
    (IsJobPage /\ response.read[1].required_skills # <<>>) =>
        LET read  == response.read[1]
            exact == ExactSkillPoints(read.required_skills,
                                      read.candidate_skills)
            sum   == ExperiencePoints(read.candidate, read.job) + exact
                     + LocationPoints(read.candidate, read.job)
                     + SalaryPoints(read.candidate, read.job)
        IN  /\ SkillPoints(read.required_skills, read.candidate_skills)
                  = exact
            /\ response.match_score = IF sum < 100 THEN sum ELSE 100

\* C12: for a posting without required skills the skills component is 25,
\* whatever skills the candidate holds, and the score is built from it.
C12_NoRequiredSkills25 ==
    (IsJobPage /\ response.read[1].required_skills = <<>>) =>
        LET read == response.read[1]
            sum  == ExperiencePoints(read.candidate, read.job) + 25
                    + LocationPoints(read.candidate, read.job)
                    + SalaryPoints(read.candidate, read.job)
        IN  /\ SkillPoints(read.required_skills, read.candidate_skills) = 25
            /\ response.match_score = IF sum < 100 THEN sum ELSE 100

\* The candidate holds skills and the posting requires none.
C12_Witness ==
    /\ IsJobPage
    /\ response.read[1].required_skills = <<>>
    /\ Len(response.read[1].candidate_skills) > 1
    /\ response.match_score = 75

\* The rows of a posting with row i tagged Nice to have.
NiceToHaveAt(required, i) ==
    [required EXCEPT ![i].importance = "Nice to have"]

\* Row i is tagged Required and the candidate does not hold its skill.
LacksRequired(read, i) ==
    /\ read.required_skills[i].importance = "Required"
    /\ \A k \in 1..Len(read.candidate_skills) :
          read.candidate_skills[k].skill_id
              # read.required_skills[i].skill_id

\* C13: when a skill the candidate lacks is tagged Required, the score is
\* not more than the score of the same posting with that skill tagged
\* Nice to have.
C13_RequiredNotAboveNiceToHave ==
    IsJobPage =>
        LET read == response.read[1]
        IN  \A i \in 1..Len(read.required_skills) :
                LacksRequired(read, i) =>
                    response.match_score
                        <= MatchScore(read.candidate, read.job,
                                      NiceToHaveAt(read.required_skills, i),
                                      read.candidate_skills)

\* The Nice-to-have variant scores strictly more.
C13_Witness ==
    /\ IsJobPage
    /\ \E i \in 1..Len(response.read[1].required_skills) :
          /\ LacksRequired(response.read[1], i)
          /\ response.match_score
                < MatchScore(response.read[1].candidate, response.read[1].job,
                             NiceToHaveAt(response.read[1].required_skills, i),
                             response.read[1].candidate_skills)

\* The candidate and the posting of the scenario: 5 years against 5,
\* "Berlin" against "Berlin, Germany", 60000 within 50000..70000, and one
\* required skill, tagged Required, that the candidate holds.
IsBerlinScenario ==
    /\ IsJobPage
    /\ response.read[1].candidate.experience_years = 5
    /\ response.read[1].candidate.location = Berlin
    /\ response.read[1].candidate.salary_expectation = ScenarioExpectation
    /\ response.read[1].job.experience_required = 5
    /\ response.read[1].job.location = BerlinGermany
    /\ response.read[1].job.salary_min = ScenarioSalaryMin
    /\ response.read[1].job.salary_max = ScenarioSalaryMax
    /\ Len(response.read[1].required_skills) = 1
    /\ response.read[1].required_skills[1].importance = "Required"
    /\ \E k \in 1..Len(response.read[1].candidate_skills) :
          response.read[1].candidate_skills[k].skill_id
              = response.read[1].required_skills[1].skill_id

\* C17: in the Berlin scenario the components are 30, 50, 10 and 10 and
\* the score is 100.
C17_BerlinScenario100 ==
    IsBerlinScenario =>
        LET read == response.read[1]
        IN  /\ ExperiencePoints(read.candidate, read.job) = 30
            /\ SkillPoints(read.required_skills, read.candidate_skills) = 50
            /\ LocationPoints(read.candidate, read.job) = 10
            /\ SalaryPoints(read.candidate, read.job) = 10
            /\ response.match_score = 100

C17_Witness == IsBerlinScenario /\ response.match_score = 100

\* Two characters that are the same letter, whatever their case.
SameLetter(a, b) ==
    \/ a = b
    \/ \E k \in 1..Len(UpperCase) :
          {a, b} = {UpperCase[k], LowerCase[k]}

\* inner occurs in outer, compared without regard to case.
ContainsIgnoringCase(inner, outer) ==
    \E offset \in 0..(Len(outer) - Len(inner)) :
        \A i \in 1..Len(inner) : SameLetter(inner[i], outer[offset + i])

\* A location that is neither absent nor empty.
HasLocation(row) == row.location # None /\ row.location[1] # <<>>

\* The location component as stated.
StatedLocationPoints(candidate, job) ==
    IF HasLocation(candidate) /\ HasLocation(job)
    THEN IF \/ ContainsIgnoringCase(candidate.location[1], job.location[1])
            \/ ContainsIgnoringCase(job.location[1], candidate.location[1])
         THEN 10 ELSE 5
    ELSE 0

\* C14: the location component is 10 when both locations are present and
\* one contains the other without regard to case, 5 when both are present
\* and neither contains the other, 0 when either is absent or empty, and
\* the score is built from it.
C14_LocationPoints ==
    IsJobPage =>
        LET read == response.read[1]
            sum  == ExperiencePoints(read.candidate, read.job)
                    + SkillPoints(read.required_skills, read.candidate_skills)
                    + StatedLocationPoints(read.candidate, read.job)
                    + SalaryPoints(read.candidate, read.job)
        IN  /\ LocationPoints(read.candidate, read.job)
                  = StatedLocationPoints(read.candidate, read.job)
            /\ (HasLocation(read.candidate) /\ HasLocation(read.job))
                  => LocationPoints(read.candidate, read.job) # 0
            /\ response.match_score = IF sum < 100 THEN sum ELSE 100

\* One location contains the other only once case is set aside.
C14_Witness ==
    /\ IsJobPage
    /\ LocationPoints(response.read[1].candidate, response.read[1].job) = 10
    /\ ~ IsSubstring(response.read[1].candidate.location[1],
                     response.read[1].job.location[1])
    /\ ~ IsSubstring(response.read[1].job.location[1],
                     response.read[1].candidate.location[1])

\* The three salary values of a job page are all present.
SalariesPresent(read) ==
    /\ read.candidate.salary_expectation # None
    /\ read.job.salary_min # None
    /\ read.job.salary_max # None

\* The score of a job page is built from the salary component `salary'.
BuiltFromSalary(read, salary) ==
    LET sum == ExperiencePoints(read.candidate, read.job)
               + SkillPoints(read.required_skills, read.candidate_skills)
               + LocationPoints(read.candidate, read.job)
               + salary
    IN  response.match_score = IF sum < 100 THEN sum ELSE 100

\* C15: when the expectation, salary_min and salary_max are all present,
\* with salary_min <= salary_max, an expectation from salary_min to
\* salary_max adds exactly 10 to the score; when one of the three is
\* absent the salary component is 0.
C15_SalaryInRange ==
    IsJobPage =>
        LET read == response.read[1]
        IN  /\ SalariesPresent(read) =>
                  LET expectation == read.candidate.salary_expectation[1]
                      salary_min  == read.job.salary_min[1]
                      salary_max  == read.job.salary_max[1]
                  IN  (/\ salary_min <= salary_max
                       /\ salary_min <= expectation
                       /\ expectation <= salary_max)
                          => /\ SalaryPoints(read.candidate, read.job) = 10
                             /\ BuiltFromSalary(read, 10)
            /\ ~ SalariesPresent(read) =>
                  /\ SalaryPoints(read.candidate, read.job) = 0
                  /\ BuiltFromSalary(read, 0)

\* C16: when the three salary values are present and the expectation is
\* above salary_max, the salary component is 5 if 10 * expectation
\* <= 12 * salary_max and 0 otherwise.
C16_SalaryTolerance ==
    (IsJobPage /\ SalariesPresent(response.read[1])) =>
        LET read        == response.read[1]
            expectation == read.candidate.salary_expectation[1]
            salary_max  == read.job.salary_max[1]
            stated      == IF 10 * expectation <= 12 * salary_max
                           THEN 5 ELSE 0
        IN  expectation > salary_max =>
                /\ SalaryPoints(read.candidate, read.job) = stated
                /\ BuiltFromSalary(read, stated)

\* C18: get_job_recommendations called with a candidate id that has no
\* profile row returns the empty list, whatever the tables hold.
C18_MissingCandidateEmpty ==
    (/\ response.route = "get_job_recommendations"
     /\ response.candidate_id \notin CandidateIds)
        => response.recommendations = <<>>

\* The call was made while postings were active and an application and
\* notifications were stored.
C18_Witness ==
    /\ response.route = "get_job_recommendations"
    /\ response.candidate_id \notin CandidateIds
    /\ response.recommendations = <<>>
    /\ \E j \in JobIds : job_postings[j].is_active
    /\ job_applications # <<>>
    /\ notifications # {}

\* C19: notify_matching_candidates called with a job id that has no
\* posting row emits no notification and changes no table.
C19_MissingJobNoOp ==
    [][(/\ response'.route = "notify_matching_candidates"
        /\ response'.job_id \notin JobIds)
           => (response'.emitted = <<>> /\ UNCHANGED store)]_vars

\* The call was made while an active candidate scored at least 70 for a
\* posting that exists.
C19_Witness ==
    /\ response.route = "notify_matching_candidates"
    /\ response.job_id \notin JobIds
    /\ response.emitted = <<>>
    /\ \E c \in LoggedIn, j \in JobIds :
          calculate_job_match_score(c, j) >= 70

\* C20: after notify_matching_candidates, in which the INSERT failed for
\* some candidates, every active candidate with a score of at least 70
\* whose own INSERT did not fail has the notification, the failure is in
\* the log, and no exception left the batch.
C20_FailureIsolated ==
    (response.route = "notify_matching_candidates"
     /\ response.job_id \in JobIds) =>
        /\ \A c \in CandidateIds :
              (/\ users[UserOf(c)].is_active
               /\ calculate_job_match_score(c, response.job_id) >= 70
               /\ UserOf(c) \notin response.failing)
                  => JobMatch(UserOf(c), response.job_id,
                              calculate_job_match_score(c, response.job_id))
                         \in notifications
        /\ (\E i \in 1..Len(response.emitted) :
               response.emitted[i].user_id \in response.failing)
              => "Error creating notification" \in error_log
        /\ ~ response.raised

\* The INSERT of an earlier candidate failed and a later candidate was
\* notified.
C20_Witness ==
    /\ response.route = "notify_matching_candidates"
    /\ ~ response.raised
    /\ \E i, k \in 1..Len(response.emitted) :
          /\ i < k
          /\ response.emitted[i].user_id \in response.failing
          /\ response.emitted[i] \notin notifications
          /\ response.emitted[k] \in notifications
    /\ "Error creating notification" \in error_log

\* C28: the four components never sum to more than 100 (experience <= 30,
\* skills <= 50, location <= 10, salary <= 10), so min(score, 100) never
\* changes the result: the score is the plain sum of the components.
C28_CapNeverApplies ==
    IsJobPage =>
        LET read       == response.read[1]
            experience == ExperiencePoints(read.candidate, read.job)
            skills     == SkillPoints(read.required_skills,
                                      read.candidate_skills)
            location   == LocationPoints(read.candidate, read.job)
            salary     == SalaryPoints(read.candidate, read.job)
        IN  /\ experience <= 30
            /\ skills <= 50
            /\ location <= 10
            /\ salary <= 10
            /\ experience + skills + location + salary <= 100
            /\ response.match_score
                   = experience + skills + location + salary

\* A job page where every component has its largest value.
C28_Witness ==
    /\ IsJobPage
    /\ ExperiencePoints(response.read[1].candidate, response.read[1].job) = 30
    /\ SkillPoints(response.read[1].required_skills,
                   response.read[1].candidate_skills) = 50
    /\ LocationPoints(response.read[1].candidate, response.read[1].job) = 10
    /\ SalaryPoints(response.read[1].candidate, response.read[1].job) = 10
    /\ response.match_score = 100

\* C29: when the three salary values are present and the expectation is
\* below salary_min, the salary component is 5.
C29_BelowMinimumGivesFive ==
    (IsJobPage /\ SalariesPresent(response.read[1])) =>
        LET read        == response.read[1]
            expectation == read.candidate.salary_expectation[1]
            salary_min  == read.job.salary_min[1]
        IN  expectation < salary_min =>
                /\ SalaryPoints(read.candidate, read.job) = 5
                /\ BuiltFromSalary(read, 5)

\* C26: one run of notify_matching_candidates emits at most one
\* notification per candidate, none for a candidate whose user is inactive,
\* and each notification it emits is addressed to the user of a matching
\* candidate, has type job_match and refers to the job passed in with the
\* score computed for that candidate.
C26_OnePerActiveCandidate ==
    response.route = "notify_matching_candidates" =>
        LET emitted == response.emitted
        IN  /\ \A i, k \in DOMAIN emitted :
                  i # k => emitted[i].user_id # emitted[k].user_id
            /\ \A i \in DOMAIN emitted :
                  /\ users[emitted[i].user_id].is_active
                  /\ emitted[i].notification_type = "job_match"
                  /\ emitted[i].job_id = Some(response.job_id)
                  /\ \E c \in CandidateIds :
                        /\ UserOf(c) = emitted[i].user_id
                        /\ emitted[i].match_score =
                               Some(calculate_job_match_score(
                                        c, response.job_id))
                        /\ emitted[i].match_score[1] >= NotifyThreshold

\* A run that notified two candidates and passed over a candidate who
\* matches but whose account is deactivated.
C26_Witness ==
    /\ response.route = "notify_matching_candidates"
    /\ Len(response.emitted) >= 2
    /\ \E c \in CandidateIds :
          /\ ~ users[UserOf(c)].is_active
          /\ calculate_job_match_score(c, response.job_id) >= NotifyThreshold
          /\ \A i \in DOMAIN response.emitted :
                response.emitted[i].user_id # UserOf(c)

\* Posting a comes before posting b in the order the rows were fetched.
FetchedBefore(a, b, order) == IF order = "asc" THEN a < b ELSE a > b

\* C27: for a fixed fetch order the result of get_job_recommendations is
\* totally ordered: of two entries the earlier has the higher score, or the
\* same score and was fetched first (the descending sort is stable).  One
\* sequence only satisfies this for given postings, so the same tables give
\* the same result.
C27_StableTies ==
    response.route = "get_job_recommendations" =>
        LET recs == response.recommendations
        IN  \A i, k \in DOMAIN recs :
                i < k =>
                    \/ recs[i].match_score > recs[k].match_score
                    \/ /\ recs[i].match_score = recs[k].match_score
                       /\ FetchedBefore(recs[i].job_id, recs[k].job_id,
                                        response.order)

\* Rows fetched by descending id, two postings with the same score among
\* postings with other scores.
C27_Witness ==
    /\ response.route = "get_job_recommendations"
    /\ response.order = "desc"
    /\ \E i, k \in DOMAIN response.recommendations :
          /\ i < k
          /\ response.recommendations[i].match_score
                 = response.recommendations[k].match_score
          /\ response.recommendations[i].job_id
                 > response.recommendations[k].job_id
    /\ \E i, k \in DOMAIN response.recommendations :
          response.recommendations[i].match_score
              > response.recommendations[k].match_score

IsSkillAnalysis == response.route = "candidate_skill_analysis"

\* The places in a list of entries that hold the given entry.
Places(entries, entry) == {i \in DOMAIN entries : entries[i] = entry}

\* C22: for each analysed posting the matching and the missing list
\* partition the posting's required skills: each required-skill row is in
\* exactly one of them, in matching exactly when its skill id is among the
\* candidate's skill ids, and its entry carries the row's importance.
C22_GapPartition ==
    IsSkillAnalysis =>
        \A n \in DOMAIN response.skill_gap_analysis :
            LET gap      == response.skill_gap_analysis[n]
                required == job_required_skills[gap.job_id]
                held     == {candidate_skills[response.candidate_id][i].skill_id :
                                i \in DOMAIN candidate_skills[response.candidate_id]}
                Entry(i) == [skill_id   |-> required[i].skill_id,
                             importance |-> required[i].importance]
                Rows(entry) == {i \in DOMAIN required : Entry(i) = entry}
            IN  /\ Len(gap.matching_skills) + Len(gap.missing_skills)
                       = Len(required)
                /\ \A i \in DOMAIN required :
                      IF required[i].skill_id \in held
                      THEN /\ Cardinality(Places(gap.matching_skills, Entry(i)))
                                  = Cardinality(Rows(Entry(i)))
                           /\ Places(gap.missing_skills, Entry(i)) = {}
                      ELSE /\ Cardinality(Places(gap.missing_skills, Entry(i)))
                                  = Cardinality(Rows(Entry(i)))
                           /\ Places(gap.matching_skills, Entry(i)) = {}

\* An analysed posting with held and lacked required skills of different
\* importance.
C22_Witness ==
    /\ IsSkillAnalysis
    /\ \E n \in DOMAIN response.skill_gap_analysis :
          LET gap == response.skill_gap_analysis[n]
          IN  /\ Len(gap.matching_skills) >= 2
              /\ Len(gap.missing_skills) >= 1
              /\ \E i, k \in DOMAIN gap.matching_skills :
                    gap.matching_skills[i].importance
                        # gap.matching_skills[k].importance

\* The analysis has one entry for each of the given recommendations, in
\* their order.
OnePerPosting(analysis, recommendations) ==
    /\ Len(analysis) = Len(recommendations)
    /\ \A i \in DOMAIN analysis :
          /\ analysis[i].job_id = recommendations[i].job_id
          /\ analysis[i].match_score = recommendations[i].match_score

\* C23 as stated: the analysis has exactly one entry per posting returned
\* by get_job_recommendations, in the order of the recommendations.
C23_OnePerRecommendation ==
    IsSkillAnalysis =>
        OnePerPosting(response.skill_gap_analysis, response.recommendations)

\* C23, amended: the analysis has exactly one entry per posting among the
\* first five returned by get_job_recommendations, in their order.
C23_OnePerTopFive ==
    IsSkillAnalysis =>
        OnePerPosting(response.skill_gap_analysis,
                      SubSeq(response.recommendations, 1,
                             IF Len(response.recommendations) < 5
                             THEN Len(response.recommendations) ELSE 5))

\* Ten postings recommended, five analysed.
C23_Witness ==
    /\ IsSkillAnalysis
    /\ Len(response.recommendations) = 10
    /\ Len(response.skill_gap_analysis) = 5

\* C30: after any interleaving of apply_job requests there is at most one
\* job_applications row for a candidate and a job.
C30_OneApplicationPerPair ==
    \A i, k \in DOMAIN job_applications :
        (/\ job_applications[i].candidate_id = job_applications[k].candidate_id
         /\ job_applications[i].job_id = job_applications[k].job_id)
            => i = k

\* C24: when calculate_job_match_score calls run interleaved over an
\* unchanged data store, each call returns the value it returns when run
\* alone, no step of a call changes the store, and no step changes the
\* variables of another call.
C24_ScoringIsolated ==
    [][/\ UNCHANGED store
       /\ \A r \in 1..MaxRequests :
             (/\ requests'[r].handler = "calculate_job_match_score"
              /\ requests'[r].pc = "returned")
                 => requests'[r].result =
                        calculate_job_match_score(requests'[r].candidate_id,
                                                  requests'[r].job_id)
       /\ \A r, q \in 1..MaxRequests :
             (r # q /\ requests'[r] # requests[r])
                 => requests'[q] = requests[q]]_vars

\* A call has returned a score while another call, for another candidate
\* and with another running score, is between its queries.
C24_Witness ==
    \E r, q \in 1..MaxRequests :
        /\ Scoring(r)
        /\ requests[r].pc = "returned"
        /\ requests[r].result >= NotifyThreshold
        /\ Scoring(q)
        /\ requests[q].pc = "candidate_skills"
        /\ requests[q].candidate_id # requests[r].candidate_id
        /\ requests[q].score = 0

\* C21: a notification written by notify_matching_candidates is never
\* retracted: whatever step follows (a later pass, a later INSERT that fails
\* and is rolled back, the batch stopping), every match notification in the
\* store stays in the store.
C21_NeverRetracted ==
    [][\A row \in notifications :
           row.notification_type = "job_match" => row \in notifications']_vars

\* A batch whose first notification was committed and whose second failed
\* and was rolled back: the first is still stored.
C21_Witness ==
    /\ response.route = "create_job"
    /\ response.status = "posted"
    /\ Len(response.sent) = 2
    /\ response.sent[1].committed
    /\ ~ response.sent[2].committed
    /\ response.sent[1].row \in notifications
    /\ response.sent[2].row \notin notifications
    /\ "Error creating notification" \in error_log

\* C25: a successful create_job calls notify_matching_candidates exactly
\* once, for the new posting, and only when the posting and all its
\* required-skill rows are committed; a create_job that fails before the
\* commit calls it not at all and writes no match notification.
C25_NotifyOnceAfterCommit ==
    /\ \A r \in 1..MaxRequests :
          Creating(r) =>
              /\ requests[r].job_id \in JobIds
              /\ job_required_skills[requests[r].job_id] = requests[r].skills
              /\ requests[r].pc = "notify" =>
                    /\ requests[r].notified = <<>>
                    /\ requests[r].sent = <<>>
              /\ requests[r].pc = "loop" =>
                    requests[r].notified = <<requests[r].job_id>>
    /\ response.route = "create_job" =>
          /\ response.status = "posted" =>
                /\ response.job_id # None
                /\ response.job_id[1] \in JobIds
                /\ response.notified = <<response.job_id[1]>>
          /\ response.status = "error" =>
                /\ response.notified = <<>>
                /\ response.sent = <<>>
          /\ \A i \in DOMAIN response.sent :
                response.sent[i].row.job_id = response.job_id

\* A posting with four required skills was created and its batch notified
\* a candidate.
C25_Witness ==
    /\ response.route = "create_job"
    /\ response.status = "posted"
    /\ response.notified = <<NumSeedJobs + 1>>
    /\ Len(job_required_skills[NumSeedJobs + 1]) >= 4
    /\ \E i \in DOMAIN response.sent :
          /\ response.sent[i].committed
          /\ response.sent[i].row \in notifications

=============================================================================
